---- MODULE Spec2Model ----
(***************************************************************************)
(* Model of the mywallet back end, src/src/app.js: an express application  *)
(* whose four async handlers (POST /signup, POST /signin,                  *)
(* POST /transaction/:type, GET /account) share three MongoDB collections  *)
(* (userlist, sessions, transactions).  Every `await` of a handler is a    *)
(* point where the event loop may run another request, so each handler is  *)
(* one action per await; the synchronous code before an await belongs to   *)
(* the action that ends at it.  A storage call either completes or throws, *)
(* which the handler's catch turns into a 500 response.                    *)
(***************************************************************************)
EXTENDS Integers, Sequences, FiniteSets, TLC

(***************************************************************************)
(* Bounds of the model.                                                    *)
(***************************************************************************)
MaxReqs == 2        \* requests in flight at the same time
MaxUsers == 2       \* documents of userlist
MaxSessions == 2    \* documents of sessions
MaxTx == 2          \* documents of transactions
MaxDocs == 4        \* documents of the three collections together

Reqs == 1..MaxReqs

(***************************************************************************)
(* Inputs of the requests.                                                 *)
(***************************************************************************)
SignupBodies ==
    {[name |-> "ana", email |-> "a@x", password |-> "pw"],
     [name |-> "bob", email |-> "b@x", password |-> "pw"],
     [name |-> "", email |-> "a@x", password |-> "pw"]}
SigninBodies ==
    {[email |-> "a@x", password |-> "pw"],
     [email |-> "b@x", password |-> "pw"],
     [email |-> "a@x", password |-> "bad"],
     [email |-> "a@x", password |-> ""]}
\* express.json() bodies; value is a JSON number, description a string
TransactionBodies ==
    {[value |-> 1, description |-> "d"],
     [value |-> 2, description |-> "d"],
     [value |-> 0, description |-> "d"],
     [value |-> -1, description |-> "d"],
     [value |-> 1, description |-> ""]}
Types == {"entrada", "saida", "outro"}
NoToken == 0                      \* no authorization header
Tokens == 1..MaxSessions          \* the uuids signin can issue
NoUser == 0                       \* findOne returned null
OrphanId == MaxUsers + 1          \* an _id that no userlist document has

VARIABLES
    userlist,       \* db.collection("userlist"): sequence of documents
    sessions,       \* db.collection("sessions"): set of documents
    transactions,   \* db.collection("transactions"): sequence of documents
    req,            \* the requests in flight: handler, position and locals
    res,            \* the response the last step sent, if it sent one
    flaky           \* whether the storage calls of this run can throw

vars == <<userlist, sessions, transactions, req, res, flaky>>
store == <<userlist, sessions, transactions>>

(***************************************************************************)
(* A request.  op is the handler, pc the await it is suspended at ("idle": *)
(* no request, "done": the response was sent).  inserted and updated tell  *)
(* which of the handler's writes have completed, err which call threw.     *)
(***************************************************************************)
Idle ==
    [op |-> "idle", pc |-> "idle", type |-> "", value |-> 0, description |-> "",
     name |-> "", email |-> "", password |-> "", authToken |-> NoToken,
     userId |-> NoUser, balance |-> 0, status |-> 0, err |-> "none",
     inserted |-> FALSE, updated |-> FALSE, resp |-> <<>>,
     bodyType |-> ""]

Free(r) == req[r].pc = "idle"

At(r, o, p) == req[r].op = o /\ req[r].pc = p

\* the handler awaits its next storage call with locals q
Await(r, q) ==
    /\ req' = [req EXCEPT ![r] = q]
    /\ res' = Idle
    /\ UNCHANGED flaky

\* res.status(st).send(...): the handler returns
Respond(r, q, st) ==
    /\ req' = [req EXCEPT ![r] = Idle]
    /\ res' = [q EXCEPT !.pc = "done", !.status = st]
    /\ UNCHANGED flaky

\* mutant: the catch answers as if the call had succeeded
FaultSwallowed(r, q, where) ==
    /\ flaky
    /\ UNCHANGED flaky
    /\ req' = [req EXCEPT ![r] = Idle]
    /\ res' = [q EXCEPT !.pc = "done", !.status = 200, !.err = where]
    /\ UNCHANGED store

\* a storage call throws: catch (error) { return res.status(500)... }
Fault(r, q, where) ==
    /\ flaky
    /\ UNCHANGED flaky
    /\ req' = [req EXCEPT ![r] = Idle]
    /\ res' = [q EXCEPT !.pc = "done", !.status = 500, !.err = where]
    /\ UNCHANGED store

(***************************************************************************)
(* The schemas and the queries.                                            *)
(***************************************************************************)
\* signupSchema: name, email and password are non-empty strings
ValidSignup(name, email, password) ==
    name # "" /\ email # "" /\ password # ""

\* signinSchema: email and password are non-empty strings
ValidSignin(email, password) ==
    email # "" /\ password # ""

\* mutant: joi.number().min(0) in place of positive()
ValidTransactionMinZero(value, description) ==
    value >= 0 /\ description # ""

\* transactionSchema: value is a positive number, description a non-empty string
ValidTransaction(value, description) ==
    value > 0 /\ description # ""

\* mutant: the allow-list check is missing
KindUnchecked(type) ==
    type = type

\* type !== "entrada" && type !== "saida" is the rejection
KindAllowed(type) ==
    type = "entrada" \/ type = "saida"

\* bcrypt.hash and bcrypt.compare
Hash(password) == <<"bcrypt", password>>
\* mutant: the comparison accepts any password
CompareAny(password, hashed) == hashed = hashed
Compare(password, hashed) == hashed = Hash(password)

\* collection("userlist").findOne(filter): the first matching document's
\* position, NoUser when there is none
FirstUser(S) == IF S = {} THEN NoUser ELSE CHOOSE i \in S : \A j \in S : i <= j
FindUserByName(name) ==
    FirstUser({i \in DOMAIN userlist : userlist[i].name = name})
FindUserByEmail(email) ==
    FirstUser({i \in DOMAIN userlist : userlist[i].email = email})
FindUserById(id) ==
    FirstUser({i \in DOMAIN userlist : userlist[i]._id = id})

\* collection("sessions").findOne({ token }): the matching documents
FindSession(token) == {s \in sessions : s.token = token}

\* uuid(): a token no session holds
Uuid == CHOOSE t \in Tokens :
            /\ t \notin {s.token : s \in sessions}
            /\ \A u \in Tokens : u \notin {s.token : s \in sessions} => t <= u

\* let balance = user.balance; balance += value or balance -= value
NewBalance(balance, type, value) ==
    IF type = "entrada" THEN balance + value
    ELSE IF type = "saida" THEN balance - value
    ELSE balance

\* mutant: find() without the userId filter
RECURSIVE ProjectAll(_, _)
ProjectAll(list, id) ==
    IF list = <<>> THEN <<>>
    ELSE <<[type |-> Head(list).type, value |-> Head(list).value,
            description |-> Head(list).description]>>
         \o ProjectAll(Tail(list), id)

\* find({ userId }).project({ type, value, description, _id: 0 }).toArray()
RECURSIVE ProjectOwned(_, _)
ProjectOwned(list, id) ==
    IF list = <<>> THEN <<>>
    ELSE LET t == Head(list)
             rest == ProjectOwned(Tail(list), id)
         IN IF t.userId = id
            THEN <<[type |-> t.type, value |-> t.value,
                    description |-> t.description]>> \o rest
            ELSE rest


(***************************************************************************)
(* POST /transaction/:type.  A request's arrival touches nothing shared,   *)
(* so it is taken together with the handler's code up to the completion of *)
(* its first storage call; the same holds for the other handlers.          *)
(***************************************************************************)
InFlight(o) == {r \in Reqs : req[r].op = o}

\* the documents stored, and the requests in flight that will insert one
Docs == Len(userlist) + Cardinality(sessions) + Len(transactions)
Writers == InFlight("signup") \cup InFlight("signin") \cup InFlight("transaction")
Room == Docs + Cardinality(Writers) < MaxDocs

\* a request rejected before its first await reads and writes nothing
\* shared and runs to completion: it is taken while no other is in flight
Quiet == \A r \in Reqs : Free(r)
Reject(r, q, st) ==
    /\ Quiet
    /\ Respond(r, q, st)
    /\ UNCHANGED store

\* mutant: if (!session) is missing, the handler goes on without a user
TxFindSessionUnchecked(r, q) ==
    \/ Fault(r, q, "sessions")
    \/ /\ FindSession(q.authToken) = {}
       /\ Await(r, [q EXCEPT !.userId = NoUser, !.pc = "findUser"])
       /\ UNCHANGED store
    \/ /\ Len(transactions) + Cardinality(InFlight("transaction")) < MaxTx
       /\ Room
       /\ \E s \in FindSession(q.authToken) :
            Await(r, [q EXCEPT !.userId = s.userId, !.pc = "findUser"])
       /\ UNCHANGED store

\* lines 150-158: the session lookup
TxFindSession(r, q) ==
    \/ Fault(r, q, "sessions")
    \/ /\ FindSession(q.authToken) = {}
       /\ Respond(r, q, 401)
       /\ UNCHANGED store
    \/ /\ Len(transactions) + Cardinality(InFlight("transaction")) < MaxTx
       /\ Room
       /\ \E s \in FindSession(q.authToken) :
            Await(r, [q EXCEPT !.userId = s.userId, !.pc = "findUser"])
       /\ UNCHANGED store

\* mutant: the authorization header is checked before the body and the kind
TxStartHeaderFirst(r, type, body, token) ==
    /\ Free(r)
    /\ LET q == [Idle EXCEPT !.op = "transaction", !.type = type,
                             !.value = body.value,
                             !.description = body.description,
                             !.authToken = token]
       IN IF token = NoToken
          THEN Reject(r, q, 401)
          ELSE IF ~ValidTransaction(body.value, body.description)
          THEN Reject(r, q, 422)
          ELSE IF ~KindAllowed(type)
          THEN Reject(r, q, 400)
          ELSE TxFindSession(r, q)

\* lines 130-148: validation, kind allow-list, authorization header
TxStart(r, type, body, token) ==
    /\ Free(r)
    /\ LET q == [Idle EXCEPT !.op = "transaction", !.type = type,
                             !.value = body.value,
                             !.description = body.description,
                             !.authToken = token]
       IN IF ~ValidTransaction(body.value, body.description)
          THEN Reject(r, q, 422)
          ELSE IF ~KindAllowed(type)
          THEN Reject(r, q, 400)
          ELSE IF token = NoToken
          THEN Reject(r, q, 401)
          ELSE TxFindSession(r, q)

\* mutant: if (!user) is missing, the handler goes on from balance 0
TxFindUserUnchecked(r) ==
    /\ At(r, "transaction", "findUser")
    /\ \/ Fault(r, req[r], "userlist")
       \/ /\ Await(r, [req[r] EXCEPT
                !.balance = NewBalance(
                    IF FindUserById(req[r].userId) = NoUser THEN 0
                    ELSE userlist[FindUserById(req[r].userId)].balance,
                    req[r].type, req[r].value),
                !.pc = "insert"])
          /\ UNCHANGED store

\* lines 159-171: the user lookup and the new balance
TxFindUser(r) ==
    /\ At(r, "transaction", "findUser")
    /\ \/ Fault(r, req[r], "userlist")
       \/ /\ FindUserById(req[r].userId) = NoUser
          /\ Respond(r, req[r], 404)
          /\ UNCHANGED store
       \/ /\ FindUserById(req[r].userId) # NoUser
          /\ Await(r, [req[r] EXCEPT
                !.balance = NewBalance(userlist[FindUserById(req[r].userId)].balance,
                                       req[r].type, req[r].value),
                !.pc = "insert"])
          /\ UNCHANGED store

\* mutant: the balance is written first, where the insert should be
TxInsertBalanceFirst(r) ==
    /\ At(r, "transaction", "insert")
    /\ \/ Fault(r, req[r], "insert")
       \/ /\ userlist' = [i \in DOMAIN userlist |->
                IF userlist[i]._id = req[r].userId
                THEN [userlist[i] EXCEPT !.balance = req[r].balance]
                ELSE userlist[i]]
          /\ Await(r, [req[r] EXCEPT !.updated = TRUE, !.pc = "update"])
          /\ UNCHANGED <<sessions, transactions>>

\* mutant: replaceOne({ userId }, ..., { upsert: true }) in place of insertOne
TxInsertUpsert(r) ==
    /\ At(r, "transaction", "insert")
    /\ \/ Fault(r, req[r], "insert")
       \/ /\ transactions' =
                SelectSeq(transactions, LAMBDA t : t.userId # req[r].userId)
                \o <<[userId |-> req[r].userId, type |-> req[r].type,
                      value |-> req[r].value,
                      description |-> req[r].description]>>
          /\ Await(r, [req[r] EXCEPT !.inserted = TRUE, !.pc = "update"])
          /\ UNCHANGED <<userlist, sessions>>

\* lines 173-180: the transaction document is inserted
TxInsert(r) ==
    /\ At(r, "transaction", "insert")
    /\ \/ Fault(r, req[r], "insert")
       \/ /\ transactions' = Append(transactions,
                [userId |-> req[r].userId, type |-> req[r].type,
                 value |-> req[r].value, description |-> req[r].description])
          /\ Await(r, [req[r] EXCEPT !.inserted = TRUE, !.pc = "update"])
          /\ UNCHANGED <<userlist, sessions>>

\* mutant: updateMany({}, { $set: { balance } }), the filter is lost
TxUpdateMany(r) ==
    /\ At(r, "transaction", "update")
    /\ \/ Fault(r, req[r], "update")
       \/ /\ userlist' = [i \in DOMAIN userlist |->
                [userlist[i] EXCEPT !.balance = req[r].balance]]
          /\ Respond(r, [req[r] EXCEPT !.updated = TRUE], 200)
          /\ UNCHANGED <<sessions, transactions>>

\* lines 182-186: updateOne({ _id: userId }, { $set: { balance } })
TxUpdate(r) ==
    /\ At(r, "transaction", "update")
    /\ \/ Fault(r, req[r], "update")
       \/ /\ userlist' = [i \in DOMAIN userlist |->
                IF userlist[i]._id = req[r].userId
                THEN [userlist[i] EXCEPT !.balance = req[r].balance]
                ELSE userlist[i]]
          /\ Respond(r, [req[r] EXCEPT !.updated = TRUE], 200)
          /\ UNCHANGED <<sessions, transactions>>

(***************************************************************************)
(* GET /account                                                            *)
(***************************************************************************)
\* lines 198-206: the session lookup
AccountFindSession(r, q) ==
    \/ Fault(r, q, "sessions")
    \/ /\ FindSession(q.authToken) = {}
       /\ Respond(r, q, 401)
       /\ UNCHANGED store
    \/ /\ \E s \in FindSession(q.authToken) :
            Await(r, [q EXCEPT !.userId = s.userId, !.pc = "findUser"])
       /\ UNCHANGED store

\* lines 192-196: authorization header
AccountStart(r, token) ==
    /\ Free(r)
    /\ LET q == [Idle EXCEPT !.op = "account", !.authToken = token]
       IN IF token = NoToken
          THEN Reject(r, q, 401)
          ELSE AccountFindSession(r, q)

\* lines 207-212: the user lookup; user.balance is read here
AccountFindUser(r) ==
    /\ At(r, "account", "findUser")
    /\ \/ Fault(r, req[r], "userlist")
       \/ /\ FindUserById(req[r].userId) = NoUser
          /\ Respond(r, req[r], 404)
          /\ UNCHANGED store
       \/ /\ FindUserById(req[r].userId) # NoUser
          /\ Await(r, [req[r] EXCEPT
                !.balance = userlist[FindUserById(req[r].userId)].balance,
                !.pc = "findTransactions"])
          /\ UNCHANGED store

\* mutant: the handler consumes the session it was called with
AccountFindTransactionsConsuming(r) ==
    /\ At(r, "account", "findTransactions")
    /\ \/ Fault(r, req[r], "transactions")
       \/ /\ Respond(r, [req[r] EXCEPT
                !.resp = [balance |-> req[r].balance,
                          transactions |->
                              ProjectOwned(transactions, req[r].userId)]],
                200)
          /\ sessions' = sessions \ FindSession(req[r].authToken)
          /\ UNCHANGED <<userlist, transactions>>

\* lines 214-225: the transactions query and the response
AccountFindTransactions(r) ==
    /\ At(r, "account", "findTransactions")
    /\ \/ Fault(r, req[r], "transactions")
       \/ /\ Respond(r, [req[r] EXCEPT
                !.resp = [balance |-> req[r].balance,
                          transactions |->
                              ProjectOwned(transactions, req[r].userId)]],
                200)
          /\ UNCHANGED store

(***************************************************************************)
(* POST /signup                                                            *)
(***************************************************************************)
\* lines 58-65: is the name taken
SignupFindName(r, q) ==
    \/ Fault(r, q, "userlist")
    \/ /\ FindUserByName(q.name) # NoUser
       /\ Respond(r, q, 409)
       /\ UNCHANGED store
    \/ /\ FindUserByName(q.name) = NoUser
       /\ Len(userlist) + Cardinality(InFlight("signup")) < MaxUsers
       /\ Room
       /\ Await(r, [q EXCEPT !.pc = "findEmail"])
       /\ UNCHANGED store

\* lines 50-57: validation
SignupStart(r, body) ==
    /\ Free(r)
    /\ LET q == [Idle EXCEPT !.op = "signup", !.name = body.name,
                             !.email = body.email, !.password = body.password]
       IN IF ~ValidSignup(body.name, body.email, body.password)
          THEN Reject(r, q, 422)
          ELSE SignupFindName(r, q)

\* lines 67-75: is the email taken; bcrypt.hash touches nothing shared and
\* is taken with this step
SignupFindEmail(r) ==
    /\ At(r, "signup", "findEmail")
    /\ \/ Fault(r, req[r], "userlist")
       \/ /\ FindUserByEmail(req[r].email) # NoUser
          /\ Respond(r, req[r], 409)
          /\ UNCHANGED store
       \/ /\ FindUserByEmail(req[r].email) = NoUser
          /\ Await(r, [req[r] EXCEPT !.pc = "insert"])
          /\ UNCHANGED store

\* mutant: the account is opened with a balance of 1
SignupInsertSeeded(r) ==
    /\ At(r, "signup", "insert")
    /\ \/ Fault(r, req[r], "insert")
       \/ /\ userlist' = Append(userlist,
                [_id |-> Len(userlist) + 1, name |-> req[r].name,
                 email |-> req[r].email, password |-> Hash(req[r].password),
                 balance |-> 1])
          /\ Respond(r, [req[r] EXCEPT !.inserted = TRUE], 201)
          /\ UNCHANGED <<sessions, transactions>>

\* lines 77-85: the user document is inserted with balance 0; the driver
\* gives it a new _id
SignupInsert(r) ==
    /\ At(r, "signup", "insert")
    /\ \/ Fault(r, req[r], "insert")
       \/ /\ userlist' = Append(userlist,
                [_id |-> Len(userlist) + 1, name |-> req[r].name,
                 email |-> req[r].email, password |-> Hash(req[r].password),
                 balance |-> 0])
          /\ Respond(r, [req[r] EXCEPT !.inserted = TRUE], 201)
          /\ UNCHANGED <<sessions, transactions>>

(***************************************************************************)
(* POST /signin                                                            *)
(***************************************************************************)
\* lines 99-112, 122-124: the user lookup and bcrypt.compare, which touches
\* nothing shared and is taken with this step
SigninFindUser(r, q) ==
    \/ Fault(r, q, "userlist")
    \/ /\ FindUserByEmail(q.email) = NoUser
       /\ Respond(r, q, 404)
       /\ UNCHANGED store
    \/ /\ FindUserByEmail(q.email) # NoUser
       /\ ~Compare(q.password, userlist[FindUserByEmail(q.email)].password)
       /\ Respond(r, q, 401)
       /\ UNCHANGED store
    \/ /\ FindUserByEmail(q.email) # NoUser
       /\ Compare(q.password, userlist[FindUserByEmail(q.email)].password)
       /\ Cardinality(sessions) + Cardinality(InFlight("signin")) < MaxSessions
       /\ Room
       /\ Await(r, [q EXCEPT !.userId = userlist[FindUserByEmail(q.email)]._id,
                             !.pc = "insert"])
       /\ UNCHANGED store

\* lines 91-98: validation
SigninStart(r, body) ==
    /\ Free(r)
    /\ LET q == [Idle EXCEPT !.op = "signin", !.email = body.email,
                             !.password = body.password]
       IN IF ~ValidSignin(body.email, body.password)
          THEN Reject(r, q, 422)
          ELSE SigninFindUser(r, q)

\* lines 113-121: a session document with a new token is inserted
SigninInsert(r) ==
    /\ At(r, "signin", "insert")
    /\ \/ Fault(r, req[r], "insert")
       \/ /\ sessions' = sessions \cup
                {[userId |-> req[r].userId, token |-> Uuid]}
          /\ Respond(r, [req[r] EXCEPT !.inserted = TRUE,
                                       !.resp = [token |-> Uuid]], 200)
          /\ UNCHANGED <<userlist, transactions>>

(***************************************************************************)
(* The service.                                                            *)
(***************************************************************************)
\* the process has just started and the database is empty
Init ==
    /\ userlist = <<>>
    /\ sessions = {}
    /\ transactions = <<>>
    /\ req = [r \in Reqs |-> Idle]
    /\ res = Idle
    /\ flaky \in BOOLEAN

Transaction ==
    \E r \in Reqs :
        \/ \E type \in Types, body \in TransactionBodies,
              token \in Tokens \cup {NoToken} :
                TxStart(r, type, body, token)
        \/ TxFindUser(r)
        \/ TxInsert(r)
        \/ TxUpdate(r)

Account ==
    \E r \in Reqs :
        \/ \E token \in Tokens \cup {NoToken} : AccountStart(r, token)
        \/ AccountFindUser(r)
        \/ AccountFindTransactions(r)

Signup ==
    \E r \in Reqs :
        \/ \E body \in SignupBodies : SignupStart(r, body)
        \/ SignupFindEmail(r)
        \/ SignupInsert(r)

Signin ==
    \E r \in Reqs :
        \/ \E body \in SigninBodies : SigninStart(r, body)
        \/ SigninInsert(r)

Next == Transaction \/ Account \/ Signup \/ Signin

Spec == Init /\ [][Next]_vars


(***************************************************************************)
(* The event loop resumes a handler when the storage call it awaits has    *)
(* settled, and every storage call settles: a request in flight takes its  *)
(* next step.                                                              *)
(***************************************************************************)
Resume(r) ==
    \/ TxFindUser(r) \/ TxInsert(r) \/ TxUpdate(r)
    \/ AccountFindUser(r) \/ AccountFindTransactions(r)
    \/ SignupFindEmail(r) \/ SignupInsert(r)
    \/ SigninInsert(r)

SpecFair == Spec /\ \A r \in Reqs : WF_vars(Resume(r))

(***************************************************************************)
(* The variant at the repository root, src/app.js: the same signup and     *)
(* signin, no GET /account, and a POST /transaction/:type whose schema     *)
(* also wants a type in the body.  Its user lookup is                      *)
(* findOne({ _id: new ObjectId(id) }) and no id is declared in the module: *)
(* evaluating the filter throws a ReferenceError inside the try, the catch *)
(* answers 500, and the code after the lookup (the balance and its         *)
(* updateOne) never runs.                                                  *)
(***************************************************************************)
RootTransactionBodies ==
    {[type |-> "entrada", value |-> 1, description |-> "d"],
     [type |-> "saida", value |-> 1, description |-> "d"],
     [type |-> "outro", value |-> 1, description |-> "d"],
     [type |-> "entrada", value |-> 0, description |-> "d"]}

\* transactionSchema of src/app.js
ValidRootTransaction(type, value, description) ==
    /\ type = "entrada" \/ type = "saida"
    /\ value > 0
    /\ description # ""

\* lines 143-154: the session lookup, then the filter of the user lookup
RootTxFindSession(r, q) ==
    \/ Fault(r, q, "sessions")
    \/ /\ FindSession(q.authToken) = {}
       /\ Respond(r, q, 401)
       /\ UNCHANGED store
    \/ /\ \E s \in FindSession(q.authToken) :
            Respond(r, [q EXCEPT !.userId = s.userId,
                                 !.err = "id is not defined"], 500)
       /\ UNCHANGED store

\* lines 127-141: validation, authorization header
RootTxStart(r, type, body, token) ==
    /\ Free(r)
    /\ LET q == [Idle EXCEPT !.op = "rootTransaction", !.type = type,
                             !.bodyType = body.type,
                             !.value = body.value,
                             !.description = body.description,
                             !.authToken = token]
       IN IF ~ValidRootTransaction(body.type, body.value, body.description)
          THEN Reject(r, q, 422)
          ELSE IF token = NoToken
          THEN Reject(r, q, 401)
          ELSE RootTxFindSession(r, q)

RootTransaction ==
    \E r \in Reqs :
        \E type \in Types, body \in RootTransactionBodies,
           token \in Tokens \cup {NoToken} :
            RootTxStart(r, type, body, token)

NextRoot == RootTransaction \/ Signup \/ Signin

SpecRoot == Init /\ [][NextRoot]_vars

(***************************************************************************)
(* The same service started on a database that already holds a session     *)
(* whose user document is gone (the handlers never delete a user; the      *)
(* database outlives the process and is not the handlers' alone).          *)
(***************************************************************************)
InitOrphan ==
    /\ userlist = <<>>
    /\ sessions = {[userId |-> OrphanId, token |-> 1]}
    /\ transactions = <<>>
    /\ req = [r \in Reqs |-> Idle]
    /\ res = Idle
    /\ flaky \in BOOLEAN

SpecOrphan == InitOrphan /\ [][Next]_vars

(***************************************************************************)
(* The same service started on a database that already holds a recorded    *)
(* transaction of a user whose document is gone: a record that belongs to  *)
(* none of the users who sign up.                                          *)
(***************************************************************************)
InitLeftover ==
    /\ userlist = <<>>
    /\ sessions = {}
    /\ transactions = <<[userId |-> OrphanId, type |-> "entrada",
                         value |-> 2, description |-> "d"]>>
    /\ req = [r \in Reqs |-> Idle]
    /\ res = Idle
    /\ flaky \in BOOLEAN

SpecLeftover == InitLeftover /\ [][Next]_vars

(***************************************************************************)
(* Vocabulary of the properties.                                           *)
(***************************************************************************)
\* the ledger of a user: entrada values minus saida values of the records
RECURSIVE LedgerOf(_, _)
LedgerOf(list, id) ==
    IF list = <<>> THEN 0
    ELSE LET t == Head(list)
         IN (IF t.userId # id THEN 0
             ELSE IF t.type = "entrada" THEN t.value
             ELSE IF t.type = "saida" THEN 0 - t.value
             ELSE 0) + LedgerOf(Tail(list), id)

Owned(id) == SelectSeq(transactions, LAMBDA t : t.userId = id)

\* the response of the step just taken is one of handler o
Responded(o) == res.op = o /\ res.pc = "done"

\* a request body that satisfies the transaction schema
BodyOk(q) == q.value > 0 /\ q.description # ""

BalanceChanged ==
    \E i \in DOMAIN userlist :
        i \in DOMAIN userlist' /\ userlist'[i].balance # userlist[i].balance

(***************************************************************************)
(* C1.  Whenever no POST /transaction request is in flight, every user's   *)
(* stored balance equals the sum of the user's recorded entrada values     *)
(* minus the sum of the recorded saida values.                             *)
(***************************************************************************)
C1_BalanceMatchesLedger ==
    InFlight("transaction") = {} =>
        \A i \in DOMAIN userlist :
            userlist[i].balance = LedgerOf(transactions, userlist[i]._id)

(***************************************************************************)
(* C2.  When the N POST /transaction/entrada requests of one user, all of  *)
(* value m, have all responded 200 (the storage calls do not throw and no  *)
(* request is still in flight), the user's balance is N * m, however their *)
(* storage calls interleaved.                                              *)
(***************************************************************************)
C2_NoLostUpdate ==
    \A i \in DOMAIN userlist : \A m \in {1, 2} :
        LET own == Owned(userlist[i]._id)
        IN (/\ ~flaky
            /\ InFlight("transaction") = {}
            /\ own # <<>>
            /\ \A k \in DOMAIN own : own[k].type = "entrada" /\ own[k].value = m)
           => userlist[i].balance = Len(own) * m

(***************************************************************************)
(* C3.  A finished POST /transaction request, whatever its response, has   *)
(* either made both of its writes or none: it has not recorded a           *)
(* transaction without writing the balance, nor the reverse.               *)
(***************************************************************************)
C3_NoPartialWrite ==
    Responded("transaction") => (res.inserted <=> res.updated)

(***************************************************************************)
(* C4.  A step changes a balance only as the balance write of a            *)
(* POST /transaction request whose record is already inserted; and the     *)
(* step in which the insert throws answers 500 and leaves the store, the   *)
(* balance included, as it was, the request making no further write.       *)
(***************************************************************************)
C4_BalanceWriteAfterInsert ==
    [][/\ BalanceChanged =>
            \E r \in Reqs :
                /\ At(r, "transaction", "update")
                /\ req[r].inserted
                /\ \E k \in DOMAIN transactions :
                        transactions[k] =
                            [userId |-> req[r].userId, type |-> req[r].type,
                             value |-> req[r].value,
                             description |-> req[r].description]
                /\ req'[r] = Idle
       /\ \A r \in Reqs :
            (At(r, "transaction", "insert") /\ req'[r] # req[r]
                /\ transactions' = transactions)
            => /\ res'.status = 500
               /\ res'.err = "insert"
               /\ ~res'.updated
               /\ req'[r] = Idle
               /\ UNCHANGED store]_vars

C4_Witness ==
    /\ Responded("transaction")
    /\ res.err = "insert"
    /\ \E i \in DOMAIN userlist : userlist[i].balance # 0

(***************************************************************************)
(* C5.  A POST /transaction request whose value is zero or negative is     *)
(* answered 422, whatever its token and kind, and the step leaves the      *)
(* three collections unchanged.                                            *)
(***************************************************************************)
C5_NonPositiveRejected ==
    [][(res'.op = "transaction" /\ res'.pc = "done" /\ res'.value <= 0)
        => (res'.status = 422 /\ UNCHANGED store)]_vars

C5_Witness ==
    /\ Responded("transaction")
    /\ res.value <= 0
    /\ res.status = 422
    /\ res.authToken \in {s.token : s \in sessions}
    /\ res.type = "entrada"
    /\ transactions # <<>>

(***************************************************************************)
(* C6.  When the user lookup of a POST /transaction request finds no       *)
(* document for the session's userId, the request is answered 404 and      *)
(* ends there: no transaction is inserted and no balance changes.          *)
(***************************************************************************)
C6_UnknownUserRejected ==
    [][\A r \in Reqs :
        (/\ At(r, "transaction", "findUser")
         /\ FindUserById(req[r].userId) = NoUser
         /\ req'[r] # req[r]
         /\ res'.err = "none")
        => (/\ res'.status = 404
            /\ ~res'.inserted
            /\ ~res'.updated
            /\ req'[r] = Idle
            /\ UNCHANGED store)]_vars

C6_Witness ==
    /\ Responded("transaction")
    /\ res.status = 404
    /\ res.userId = OrphanId
    /\ userlist # <<>>


(***************************************************************************)
(* C7.  As claimed: a POST /transaction or GET /account request without an *)
(* authorization header, or with a token that no session holds, is         *)
(* answered 401 (when no storage call threw).                              *)
(***************************************************************************)
Unauthenticated(q) ==
    q.authToken = NoToken \/ FindSession(q.authToken) = {}

C7_UnauthenticatedIs401 ==
    ((Responded("transaction") \/ Responded("account"))
        /\ Unauthenticated(res) /\ res.err = "none")
    => res.status = 401

(***************************************************************************)
(* C7, amended.  Such a request never changes a collection, and it is      *)
(* answered 401 when it is a GET /account, or a POST /transaction whose    *)
(* body and kind are valid; a POST /transaction whose body is invalid is   *)
(* answered 422 and one whose kind is invalid 400, the header not being    *)
(* looked at; a session lookup that throws is answered 500.                *)
(***************************************************************************)
C7_UnauthenticatedRejected ==
    [][((res'.op \in {"transaction", "account"}) /\ res'.pc = "done"
            /\ Unauthenticated(res'))
        => /\ UNCHANGED store
           /\ res'.status =
                IF res'.op = "transaction" /\ ~BodyOk(res') THEN 422
                ELSE IF res'.op = "transaction"
                        /\ res'.type \notin {"entrada", "saida"} THEN 400
                ELSE IF res'.err # "none" THEN 500
                ELSE 401]_vars

C7_Witness ==
    /\ Responded("transaction")
    /\ res.status = 401
    /\ res.authToken # NoToken
    /\ FindSession(res.authToken) = {}
    /\ sessions # {}
    /\ transactions # <<>>

(***************************************************************************)
(* C8.  As claimed: a POST /transaction request whose kind is neither      *)
(* entrada nor saida is answered 400.                                      *)
(***************************************************************************)
C8_InvalidKindIs400 ==
    (Responded("transaction") /\ res.type \notin {"entrada", "saida"})
    => res.status = 400

(***************************************************************************)
(* C8, amended.  Such a request is answered 400 when its body is valid and *)
(* 422 when it is not (the body is validated first), and changes no        *)
(* collection either way; every recorded transaction has kind entrada or   *)
(* saida and a value above zero.                                           *)
(***************************************************************************)
C8_InvalidKindRejected ==
    /\ [][(res'.op = "transaction" /\ res'.pc = "done"
                /\ res'.type \notin {"entrada", "saida"})
            => /\ UNCHANGED store
               /\ res'.status = IF BodyOk(res') THEN 400 ELSE 422]_vars
    /\ [](\A k \in DOMAIN transactions :
            /\ transactions[k].type \in {"entrada", "saida"}
            /\ transactions[k].value > 0)

C8_Witness ==
    /\ Responded("transaction")
    /\ res.type = "outro"
    /\ res.status = 400
    /\ res.authToken \in {s.token : s \in sessions}
    /\ transactions # <<>>

(***************************************************************************)
(* C9.  A GET /account answered 200 for a user who owns no recorded        *)
(* transaction carries balance 0 and an empty transaction list (the users  *)
(* are those signup created: the database starts empty).                   *)
(***************************************************************************)
C9_NewUserSummary ==
    (Responded("account") /\ res.status = 200 /\ Owned(res.userId) = <<>>)
    => (res.resp.balance = 0 /\ res.resp.transactions = <<>>)

C9_Witness ==
    /\ Responded("account")
    /\ res.status = 200
    /\ Owned(res.userId) = <<>>
    /\ res.resp = [balance |-> 0, transactions |-> <<>>]
    /\ InFlight("transaction") # {}

(***************************************************************************)
(* C10.  No step of a GET /account request, whatever the response it ends  *)
(* with, changes userlist, sessions or transactions.                       *)
(***************************************************************************)
AccountStep ==
    \/ res'.op = "account"
    \/ \E r \in Reqs :
        req'[r] # req[r] /\ (req[r].op = "account" \/ req'[r].op = "account")

C10_AccountReadOnly ==
    [][AccountStep => UNCHANGED store]_vars

C10_Witness ==
    /\ Responded("account")
    /\ res.status = 200
    /\ res.resp.transactions # <<>>
    /\ res.resp.balance # 0


(***************************************************************************)
(* C11.  A recorded transaction stays as it is: no step changes the owner, *)
(* kind, value or description of a document of transactions, removes it or *)
(* moves it.                                                               *)
(***************************************************************************)
C11_TransactionsAppendOnly ==
    [][\A k \in DOMAIN transactions :
        /\ k \in DOMAIN transactions'
        /\ transactions'[k] = transactions[k]]_vars

C11_Witness ==
    /\ Len(transactions) = 2
    /\ transactions[1].userId = transactions[2].userId
    /\ transactions[1] # transactions[2]

(***************************************************************************)
(* C12.  A step changes the balance of a user only as the balance write of *)
(* a POST /transaction request whose token is a session of that user, and  *)
(* then no other user's balance changes; no step removes a user document   *)
(* or changes anything else of it.                                         *)
(***************************************************************************)
C12_BalanceFrame ==
    [][\A i \in DOMAIN userlist :
        /\ i \in DOMAIN userlist'
        /\ userlist'[i] = [userlist[i] EXCEPT !.balance = userlist'[i].balance]
        /\ userlist'[i].balance # userlist[i].balance
            => \E r \in Reqs :
                /\ At(r, "transaction", "update")
                /\ req'[r] = Idle
                /\ res'.op = "transaction"
                /\ [userId |-> userlist[i]._id, token |-> req[r].authToken]
                        \in sessions
                /\ \A j \in DOMAIN userlist :
                        userlist[j]._id # userlist[i]._id
                            => userlist'[j] = userlist[j]]_vars

C12_Witness ==
    /\ Len(userlist) = 2
    /\ Responded("transaction")
    /\ res.status = 200
    /\ \E i, j \in DOMAIN userlist :
        userlist[i].balance # 0 /\ userlist[j].balance = 0


(***************************************************************************)
(* C13.  Every request in flight is answered; the step that ends a request *)
(* sends the one response of that request; a storage call of               *)
(* POST /transaction or GET /account that throws is answered 500; and a    *)
(* request inserts at most one transaction and writes a balance at most    *)
(* once, its insert and its balance write each being a step it does not    *)
(* take again.                                                             *)
(***************************************************************************)
C13_AnsweredOnceNoRetry ==
    /\ \A r \in Reqs : (req[r].pc # "idle") ~> (req[r].pc = "idle")
    /\ []((res.op \in {"transaction", "account"} /\ res.err # "none")
            => (res.pc = "done" /\ res.status = 500))
    /\ [][/\ \A r \in Reqs :
                /\ (req[r].pc # "idle" /\ req'[r].pc = "idle")
                    => (res'.pc = "done" /\ res'.op = req[r].op
                        /\ res'.status # 0)
                /\ (req[r].pc # "idle" /\ req'[r].pc # "idle")
                    => (req'[r].op = req[r].op
                        /\ (req'[r] # req[r] => res' = Idle))
          /\ transactions' # transactions =>
                \E r \in Reqs :
                    /\ At(r, "transaction", "insert")
                    /\ ~req[r].inserted
                    /\ req'[r].inserted
                    /\ req'[r].pc = "update"
                    /\ Len(transactions') = Len(transactions) + 1
          /\ BalanceChanged =>
                \E r \in Reqs :
                    /\ At(r, "transaction", "update")
                    /\ ~req[r].updated
                    /\ req'[r] = Idle]_vars

C13_Witness ==
    /\ Responded("account")
    /\ res.status = 500
    /\ res.err = "transactions"
    /\ transactions # <<>>


(***************************************************************************)
(* C14.  In the root variant, a POST /transaction/:type request with a     *)
(* valid body and the token of a session of a stored user is answered 200  *)
(* and moves that user's stored balance by +value for entrada and by       *)
(* -value for saida (no storage call throwing).                            *)
(***************************************************************************)
C14_RootTransactionApplies ==
    [][(/\ ~flaky
        /\ res'.op = "rootTransaction"
        /\ res'.pc = "done"
        /\ res'.bodyType \in {"entrada", "saida"}
        /\ res'.type \in {"entrada", "saida"}
        /\ res'.value > 0
        /\ res'.description # ""
        /\ \E s \in sessions, i \in DOMAIN userlist :
                s.token = res'.authToken /\ userlist[i]._id = s.userId)
        => /\ res'.status = 200
           /\ \E s \in sessions, i \in DOMAIN userlist :
                /\ s.token = res'.authToken
                /\ userlist[i]._id = s.userId
                /\ userlist'[i].balance = userlist[i].balance
                        + (IF res'.type = "entrada" THEN res'.value
                           ELSE 0 - res'.value)]_vars


(***************************************************************************)
(* C15.  No two stored users share a name and no two share an email.       *)
(***************************************************************************)
C15_NamesEmailsUnique ==
    \A i, j \in DOMAIN userlist :
        i # j => /\ userlist[i].name # userlist[j].name
                 /\ userlist[i].email # userlist[j].email


(***************************************************************************)
(* C16.  A GET /account response with status 200 (no storage call          *)
(* throwing) returns a balance equal to the sum of the entrada values      *)
(* minus the sum of the saida values of the transactions it returns.       *)
(***************************************************************************)
RECURSIVE SumOfReturned(_)
SumOfReturned(list) ==
    IF list = <<>> THEN 0
    ELSE (IF Head(list).type = "entrada" THEN Head(list).value
          ELSE IF Head(list).type = "saida" THEN 0 - Head(list).value
          ELSE 0) + SumOfReturned(Tail(list))

C16_SummaryConsistent ==
    (/\ ~flaky
     /\ res.op = "account"
     /\ res.pc = "done"
     /\ res.status = 200)
        => res.resp.balance = SumOfReturned(res.resp.transactions)


(***************************************************************************)
(* C17.  GET /account reads the balance of the user of the session its     *)
(* token names, and its 200 response carries that balance together with    *)
(* the recorded transactions whose owner is that user, in order, no other  *)
(* record, each as type, value and description only; and a transaction is  *)
(* recorded with an owner that is a stored user at the insert.             *)
(***************************************************************************)
C17_OwnRecordsOnly ==
    [][/\ \A r \in Reqs :
            (At(r, "account", "findUser") /\ req'[r].pc = "findTransactions")
                => /\ [userId |-> req[r].userId, token |-> req[r].authToken]
                        \in sessions
                   /\ req'[r].userId = req[r].userId
                   /\ \E i \in DOMAIN userlist :
                        /\ userlist[i]._id = req[r].userId
                        /\ req'[r].balance = userlist[i].balance
       /\ (res'.op = "account" /\ res'.pc = "done" /\ res'.status = 200)
            => \E r \in Reqs :
                /\ At(r, "account", "findTransactions")
                /\ req'[r] = Idle
                /\ res'.resp.balance = req[r].balance
                /\ res'.resp.transactions =
                    [k \in 1..Len(Owned(req[r].userId)) |->
                        [type |-> Owned(req[r].userId)[k].type,
                         value |-> Owned(req[r].userId)[k].value,
                         description |-> Owned(req[r].userId)[k].description]]
       /\ \A k \in DOMAIN transactions' :
            k \notin DOMAIN transactions
                => \E i \in DOMAIN userlist :
                        userlist[i]._id = transactions'[k].userId]_vars

C17_Witness ==
    /\ Responded("account")
    /\ res.status = 200
    /\ Len(res.resp.transactions) = 1
    /\ \E k \in DOMAIN transactions : transactions[k].userId # res.userId
    /\ \E k \in DOMAIN transactions : transactions[k].userId = res.userId


(***************************************************************************)
(* C18.  No step removes or changes a stored session, and a token names    *)
(* one session only, so a token keeps resolving to the same user; a        *)
(* session is added only by the insert of a POST /signin whose password    *)
(* matches the stored hash of the user found by the submitted email, for   *)
(* that user and with a token no session holds; a signin answered 404 or   *)
(* 401 leaves the sessions as they were.                                   *)
(***************************************************************************)
C18_SessionsOnlyAdded ==
    /\ [](\A s, t \in sessions : s.token = t.token => s = t)
    /\ [][/\ sessions \subseteq sessions'
          /\ \A s \in sessions' \ sessions :
                /\ s.token \notin {t.token : t \in sessions}
                /\ \E r \in Reqs :
                    /\ At(r, "signin", "insert")
                    /\ req'[r] = Idle
                    /\ res'.status = 200
                    /\ s.userId = req[r].userId
                    /\ \E i \in DOMAIN userlist :
                        /\ userlist[i]._id = s.userId
                        /\ userlist[i].email = req[r].email
                        /\ userlist[i].password = Hash(req[r].password)
          /\ (res'.op = "signin" /\ res'.pc = "done"
                /\ res'.status \in {404, 401})
                => sessions' = sessions]_vars

C18_Witness ==
    /\ Responded("signin")
    /\ res.status = 401
    /\ res.password = "bad"
    /\ \E s \in sessions, i \in DOMAIN userlist :
            userlist[i]._id = s.userId /\ userlist[i].email = res.email


(***************************************************************************)
(* C19.  The failures of POST /transaction in the order body validation    *)
(* (422), kind (400), missing token (401), unknown token (401), unknown    *)
(* user (404), storage fault (500).                                        *)
(***************************************************************************)
\* the token of q names no stored session
NoSessionFor(q) == \A s \in sessions : s.token # q.authToken
\* the token of q names no session of a stored user
NoUserFor(q) ==
    \A s \in sessions :
        s.token = q.authToken => \A i \in DOMAIN userlist : userlist[i]._id # s.userId

\* the status of the first failure in the order as listed, a storage fault
\* coming last
ListedStatus(q) ==
    IF ~BodyOk(q) THEN 422
    ELSE IF q.type \notin {"entrada", "saida"} THEN 400
    ELSE IF q.authToken = NoToken THEN 401
    ELSE IF NoSessionFor(q) THEN 401
    ELSE IF NoUserFor(q) THEN 404
    ELSE IF q.err # "none" THEN 500
    ELSE 200

\* as listed: a response reports the first failure of the listed order
C19_ListedOrder ==
    Responded("transaction") => res.status = ListedStatus(res)

\* the status by the order of the code: each storage call can throw, and a
\* call that throws is reported before the check on its result
CodeStatus(q) ==
    IF ~BodyOk(q) THEN 422
    ELSE IF q.type \notin {"entrada", "saida"} THEN 400
    ELSE IF q.authToken = NoToken THEN 401
    ELSE IF q.err = "sessions" THEN 500
    ELSE IF NoSessionFor(q) THEN 401
    ELSE IF q.err = "userlist" THEN 500
    ELSE IF NoUserFor(q) THEN 404
    ELSE IF q.err # "none" THEN 500
    ELSE 200

(***************************************************************************)
(* C19, as the code has it.  A POST /transaction response reports the      *)
(* first failure in the order 422, 400, 401 for a missing token, then 500  *)
(* when the session lookup throws and 401 when it finds nothing, then 500  *)
(* when the user lookup throws and 404 when it finds nothing, then 500     *)
(* when the insert or the balance write throws.  A request answered 422,   *)
(* 400 or 401 is answered in the step it arrived in, before any user       *)
(* lookup; one answered 404 is answered by its user lookup; and a request  *)
(* answered with any of these has written nothing.                         *)
(***************************************************************************)
C19_FailureOrder ==
    [][(res'.op = "transaction" /\ res'.pc = "done")
        => /\ res'.status = CodeStatus(res')
           /\ res'.status \in {422, 400, 401}
                => /\ req' = req
                   /\ res'.userId = NoUser
                   /\ UNCHANGED store
           /\ res'.status = 404
                => /\ \E r \in Reqs :
                        At(r, "transaction", "findUser") /\ req'[r] = Idle
                   /\ ~res'.inserted
                   /\ ~res'.updated
                   /\ UNCHANGED store]_vars

C19_Witness ==
    /\ Responded("transaction")
    /\ res.status = 422
    /\ res.type = "outro"
    /\ res.authToken = NoToken
    /\ sessions # {}

====
